---- MODULE Spec2Model ----
(***************************************************************************)
(* Model of the App component of src/index.tsx: the planner form's state,  *)
(* its field handlers, handleSubmit with its two suspension points         *)
(* (fileToText, ai.models.generateContent), and the parts of the render    *)
(* that read the state (the submit button's disabled expression, the       *)
(* mealPlan section).                                                      *)
(*                                                                         *)
(* One handler run, or one continuation of handleSubmit after an await, is *)
(* one step: React batches the setState calls of a run and renders once.   *)
(* The prompt and the response schema built in handleSubmit are local to   *)
(* one run, are never stored in the component and never decide a branch;   *)
(* the external service's answer is an input chosen by the environment.    *)
(* numPeople and pantryOption are read by the prompt alone and are left    *)
(* out with it.                                                            *)
(***************************************************************************)
EXTENDS Integers, Sequences, FiniteSets, Bags, TLC

VARIABLES
    file,           \* useState<File | null>
    diet,           \* useState<string>
    userType,       \* useState<string>
    selectedMeals,  \* useState<Record<string, boolean>>
    mealPlan,       \* useState<Meal[] | null>
    loading,        \* useState<boolean>
    error,          \* useState<string | null>
    flows,          \* the suspended runs of handleSubmit, a bag
    mounted,        \* the App tree is rendered under the root
    event,          \* history: the event handled by the last step
    bypassed        \* history: a submit event was handled while the button was disabled

vars == <<file, diet, userType, selectedMeals,
          mealPlan, loading, error, flows, mounted, event, bypassed>>

form == <<file, diet, userType, selectedMeals>>

----------------------------------------------------------------------------
(* Bounds of the model *)

\* largest number of meals in one response
MaxMeals == 2
\* largest number of runs of handleSubmit suspended at once
MaxFlows == 2

----------------------------------------------------------------------------
(* JavaScript values *)

null == [t |-> "null"]
undefined == [t |-> "undefined"]
Str(s) == [t |-> "string", v |-> s]
Arr(items) == [t |-> "array", v |-> items]
Obj(fields) == [t |-> "object", v |-> fields]
FileObj(name) == [t |-> "file", v |-> name]

\* ToBoolean of a value, as used by !x and by x && ...
Truthy(x) ==
    CASE x.t = "null" -> FALSE
      [] x.t = "undefined" -> FALSE
      [] x.t = "string" -> x.v # ""
      [] OTHER -> TRUE

\* x.key: throws on null and undefined, undefined when the key is absent
\* variant of GetProp: the object itself in place of its property
GetProp_wholeObject(x, key) == [threw |-> FALSE, value |-> x]

GetProp(x, key) ==
    IF x.t \in {"null", "undefined"}
    THEN [threw |-> TRUE]
    ELSE IF x.t = "object" /\ key \in DOMAIN x.v
         THEN [threw |-> FALSE, value |-> x.v[key]]
         ELSE [threw |-> FALSE, value |-> undefined]

\* A text is malformed, or is the serialisation of one JSON value.
Malformed == [wellFormed |-> FALSE]
TextOf(json) == [wellFormed |-> TRUE, json |-> json]

JSONparse(text) ==
    IF text.wellFormed
    THEN [threw |-> FALSE, value |-> text.json]
    ELSE [threw |-> TRUE]

----------------------------------------------------------------------------
(* Constants of the component *)

dietOptions == <<"", "Vegetarian", "Keto", "Non-Vegetarian", "Vegan", "Mediterranean">>
userTypeOptions == <<"", "Bachelor", "Housewife", "Working Professional", "Student", "Kid">>
mealTimeOptions == <<"breakfast", "brunch", "lunch", "snack", "dinner">>

ValidationMessage == "Please fill in all the required fields."
GenerationMessage ==
    "Sorry, we couldn't generate a meal plan. Please check the file format or try again later."

Range(s) == {s[i] : i \in DOMAIN s}

\* the options of a <select> the user can pick: the "" option is disabled
Selectable(options) == {o \in Range(options) : o # ""}

----------------------------------------------------------------------------
(* Inputs of the environment *)

\* files the user can pick in the file dialog
Files == {"pantry.txt"}
\* event.target.files: null-or-empty when the dialog is cancelled
FileLists == {<<>>} \cup {<<f>> : f \in Files}

StirFry ==
    [mealType |-> "dinner", recipeName |-> "Stir Fry",
     ingredients |-> <<"rice", "egg">>, instructions |-> "Cook rice, fry egg, mix."]
Omelette ==
    [mealType |-> "breakfast", recipeName |-> "Omelette",
     ingredients |-> <<"egg">>, instructions |-> "Beat and fry.",
     shoppingList |-> <<"butter">>]
Meals == {StirFry, Omelette}

\* the lists of at most n meals
MealLists(n) == UNION {[1..k -> Meals] : k \in 0..n}

\* texts whose JSON value has the declared shape {meals: Meal[]}
ConformingTexts == {TextOf(Obj([meals |-> Arr(ms)])) : ms \in MealLists(MaxMeals)}

\* texts that are not JSON, or JSON of another shape
MismatchTexts ==
    {TextOf(null),
     TextOf(Obj([recipes |-> Arr(<<>>)])),
     TextOf(Obj([meals |-> null])),
     TextOf(Obj([meals |-> Str("none")]))}

ResponseTexts == {Malformed} \cup MismatchTexts \cup ConformingTexts

----------------------------------------------------------------------------
(* Render *)

atLeastOneMealSelected == \E m \in DOMAIN selectedMeals : selectedMeals[m]

\* variant of SubmitDisabled: the meal times are not looked at
SubmitDisabled_noMealCheck ==
    \/ ~Truthy(file)
    \/ diet = ""
    \/ userType = ""
    \/ loading

\* variant of SubmitDisabled: loading is not looked at
SubmitDisabled_ignoresLoading ==
    \/ ~Truthy(file)
    \/ diet = ""
    \/ userType = ""
    \/ ~atLeastOneMealSelected

\* the disabled attribute of the submit button
SubmitDisabled ==
    \/ ~Truthy(file)
    \/ diet = ""
    \/ userType = ""
    \/ ~atLeastOneMealSelected
    \/ loading

\* {mealPlan && ... mealPlan.map(...)}: map exists on arrays only
RenderThrows(plan) == Truthy(plan) /\ plan.t # "array"

----------------------------------------------------------------------------
(* Initial state *)

Init ==
    /\ file = null
    /\ diet = ""
    /\ userType = ""
    /\ selectedMeals = [m \in Range(mealTimeOptions) |-> FALSE]
    /\ mealPlan = null
    /\ loading = FALSE
    /\ error = null
    /\ flows = EmptyBag
    /\ mounted = TRUE
    /\ event = [type |-> "mount"]
    /\ bypassed = FALSE

----------------------------------------------------------------------------
(* Field handlers *)

result == <<mealPlan, loading, error, flows, mounted, bypassed>>

handleFileChange(files) ==
    /\ mounted
    /\ file' = IF Len(files) > 0 THEN FileObj(files[1]) ELSE file
    /\ event' = [type |-> "change"]
    /\ UNCHANGED <<diet, userType, selectedMeals, result>>

setUserType(value) ==
    /\ mounted
    /\ value # userType
    /\ userType' = value
    /\ event' = [type |-> "change"]
    /\ UNCHANGED <<file, diet, selectedMeals, result>>

setDiet(value) ==
    /\ mounted
    /\ value # diet
    /\ diet' = value
    /\ event' = [type |-> "change"]
    /\ UNCHANGED <<file, userType, selectedMeals, result>>

\* a click on a checkbox: checked is the opposite of what was rendered
handleMealTimeChange(name) ==
    /\ mounted
    /\ LET checked == ~selectedMeals[name]
       IN  selectedMeals' = [selectedMeals EXCEPT ![name] = checked]
    /\ event' = [type |-> "change"]
    /\ UNCHANGED <<file, diet, userType, result>>

----------------------------------------------------------------------------
(* handleSubmit *)

\* variant of RequiredMissing: userType is not looked at
RequiredMissing_noUserType ==
    ~Truthy(file) \/ diet = "" \/ ~atLeastOneMealSelected

\* the condition of the early return
RequiredMissing ==
    ~Truthy(file) \/ diet = "" \/ userType = "" \/ ~atLeastOneMealSelected

\* variant of ClearOutcome: setError(null) left out
ClearOutcome_keepsError == mealPlan' = null /\ error' = error

\* variant of ClearOutcome: setMealPlan(null) left out
ClearOutcome_keepsMealPlan == error' = null /\ mealPlan' = mealPlan

\* setError(null); setMealPlan(null)
ClearOutcome == error' = null /\ mealPlan' = null

\* variant of Begin: setLoading(true) left out
Begin_noSetLoading ==
    /\ BagCardinality(flows) < MaxFlows
    /\ loading' = loading
    /\ ClearOutcome
    /\ flows' = flows (+) SetToBag({[pc |-> "fileToText", file |-> file]})

\* past the early return: the setState calls, then the run suspends in
\* await fileToText(file)
Begin ==
    /\ BagCardinality(flows) < MaxFlows
    /\ loading' = TRUE
    /\ ClearOutcome
    /\ flows' = flows (+) SetToBag({[pc |-> "fileToText", file |-> file]})

\* up to the first await
handleSubmit ==
    /\ event' = [type |-> "submit"]
    /\ UNCHANGED <<form, mounted>>
    /\ IF RequiredMissing
       THEN /\ error' = Str(ValidationMessage)
            /\ UNCHANGED <<mealPlan, loading, flows>>
       ELSE Begin

\* variant of Failed: the catch sets no error
Failed_noSetError(f) ==
    /\ error' = error
    /\ loading' = FALSE
    /\ flows' = flows (-) SetToBag({f})
    /\ UNCHANGED <<form, mealPlan, mounted, bypassed>>

\* variant of Failed: no finally, loading is left as it is
Failed_keepsLoading(f) ==
    /\ error' = Str(GenerationMessage)
    /\ loading' = loading
    /\ flows' = flows (-) SetToBag({f})
    /\ UNCHANGED <<form, mealPlan, mounted, bypassed>>

\* catch and finally
Failed(f) ==
    /\ error' = Str(GenerationMessage)
    /\ loading' = FALSE
    /\ flows' = flows (-) SetToBag({f})
    /\ UNCHANGED <<form, mealPlan, mounted, bypassed>>

\* reader.onload: fileToText resolves, the run goes on to generateContent
readResolve(f) ==
    /\ mounted
    /\ f.pc = "fileToText"
    /\ flows' = (flows (-) SetToBag({f})) (+) SetToBag({[f EXCEPT !.pc = "generateContent"]})
    /\ event' = [type |-> "readResolve"]
    /\ UNCHANGED <<form, mealPlan, loading, error, mounted, bypassed>>

\* reader.onerror: fileToText rejects
readReject(f) ==
    /\ mounted
    /\ f.pc = "fileToText"
    /\ event' = [type |-> "readReject"]
    /\ Failed(f)

\* generateContent rejects
generateReject(f) ==
    /\ mounted
    /\ f.pc = "generateContent"
    /\ event' = [type |-> "generateReject"]
    /\ Failed(f)

\* generateContent resolves with a response whose text is `text`
generateResolve(f, text) ==
    /\ mounted
    /\ f.pc = "generateContent"
    /\ event' = [type |-> "generateResolve", text |-> text]
    /\ LET parsedPlan == JSONparse(text)
           meals == IF parsedPlan.threw THEN [threw |-> TRUE]
                    ELSE GetProp(parsedPlan.value, "meals")
       IN  IF meals.threw
           THEN Failed(f)
           ELSE /\ mealPlan' = meals.value
                /\ loading' = FALSE
                /\ flows' = flows (-) SetToBag({f})
                /\ mounted' = ~RenderThrows(meals.value)
                /\ UNCHANGED <<form, error, bypassed>>

----------------------------------------------------------------------------
(* Specifications *)

FieldUpdate ==
    \/ \E files \in FileLists : handleFileChange(files)
    \/ \E value \in Selectable(userTypeOptions) : setUserType(value)
    \/ \E value \in Selectable(dietOptions) : setDiet(value)
    \/ \E name \in Range(mealTimeOptions) : handleMealTimeChange(name)

Completion ==
    \/ \E f \in BagToSet(flows) : readResolve(f)
    \/ \E f \in BagToSet(flows) : readReject(f)
    \/ \E f \in BagToSet(flows) : generateReject(f)
    \/ \E f \in BagToSet(flows), text \in ResponseTexts : generateResolve(f, text)

\* a click on the submit button: a disabled button submits nothing
SubmitClick ==
    /\ mounted
    /\ ~SubmitDisabled
    /\ handleSubmit
    /\ UNCHANGED bypassed

\* a submit event that reaches the form whatever the button's state
SubmitEvent ==
    /\ mounted
    /\ handleSubmit
    /\ bypassed' = (bypassed \/ SubmitDisabled)

\* the user works the rendered controls
Next == FieldUpdate \/ SubmitClick \/ Completion

Spec == Init /\ [][Next]_vars

\* submit events are dispatched on the form directly
NextDispatch == FieldUpdate \/ SubmitEvent \/ Completion

SpecDispatch == Init /\ [][NextDispatch]_vars

\* every pending read and every pending call settles
FairSpec == Spec /\ WF_vars(Completion)

----------------------------------------------------------------------------
(* Vocabulary of the properties *)

NonNull(x) == x.t \notin {"null", "undefined"}

\* a required field is missing, in the words of the specification
Incomplete ==
    \/ file = null
    \/ diet = ""
    \/ userType = ""
    \/ \A m \in Range(mealTimeOptions) : ~selectedMeals[m]

InFlight == BagCardinality(flows)

\* the events in which a submission fails in the read, in the call or in
\* JSON.parse
FailureEvent(e) ==
    \/ e.type \in {"readReject", "generateReject"}
    \/ e.type = "generateResolve" /\ e.text = Malformed

----------------------------------------------------------------------------
(* C1: a submit on a form that lacks the file, the diet, the user type or   *)
(* every meal time sets error to the validation message, starts no read    *)
(* and no call, and leaves loading and mealPlan as they were.              *)
C1_ValidationFailure ==
    [][(event'.type = "submit" /\ Incomplete) =>
            /\ error' = Str(ValidationMessage)
            /\ flows' = flows
            /\ loading' = loading
            /\ mealPlan' = mealPlan]_vars

\* a submit has just been refused on an incomplete form, with the meal list
\* of an earlier submission still in place
C1_Witness ==
    /\ event.type = "submit"
    /\ Incomplete
    /\ error = Str(ValidationMessage)
    /\ mealPlan = Arr(<<StirFry>>)
    /\ ~loading

(* C2: wherever the form is rendered, the submit button is enabled exactly *)
(* when the file is present, diet and userType are set, a meal time is     *)
(* selected and loading is false.                                          *)
C2_SubmitEnabledIff ==
    mounted =>
        (~SubmitDisabled <=>
            /\ file # null
            /\ diet # ""
            /\ userType # ""
            /\ \E m \in Range(mealTimeOptions) : selectedMeals[m]
            /\ loading = FALSE)

\* the button is enabled again after a request has completed
C2_Witness ==
    /\ mounted
    /\ ~SubmitDisabled
    /\ event.type = "generateResolve"

(* C3: when the read rejects, the call rejects or the response text is not *)
(* JSON, the step leaves mealPlan null, error the generation message and   *)
(* loading false.                                                          *)
C3_FailureOutcome ==
    [][FailureEvent(event') =>
            /\ mealPlan' = null
            /\ error' = Str(GenerationMessage)
            /\ loading' = FALSE]_vars

\* a response that is not JSON has just been handled
C3_Witness ==
    /\ event.type = "generateResolve"
    /\ event.text = Malformed
    /\ error = Str(GenerationMessage)

(* C4: a response whose JSON does not have the declared shape is handled   *)
(* as a generation error: error becomes the generation message and         *)
(* mealPlan stays null.                                                    *)
C4_SchemaMismatchIsError ==
    [][(event'.type = "generateResolve" /\ event'.text \in MismatchTexts) =>
            /\ error' = Str(GenerationMessage)
            /\ mealPlan' = null]_vars

(* C5: when the call resolves with a text of the declared shape, the step  *)
(* leaves mealPlan equal to the meals array of that text, error null and   *)
(* loading false.                                                          *)
C5_SuccessOutcome ==
    [][\A ms \in MealLists(MaxMeals) :
            event' = [type |-> "generateResolve",
                      text |-> TextOf(Obj([meals |-> Arr(ms)]))] =>
                /\ mealPlan' = Arr(ms)
                /\ error' = null
                /\ loading' = FALSE]_vars

\* a two-meal response has just been stored, in its order
C5_Witness ==
    /\ event.type = "generateResolve"
    /\ mealPlan = Arr(<<Omelette, StirFry>>)
    /\ error = null
    /\ ~loading

C7_LoadingCleared == loading ~> ~loading

\* loading has been cleared by a rejected read
C7_Witness ==
    /\ event.type = "readReject"
    /\ ~loading

(* C8: at most one submission is in flight at any time.                    *)
C8_OneInFlight == InFlight <= 1

\* one submission is in flight and only loading keeps the button disabled
C8_Witness ==
    /\ InFlight = 1
    /\ ~Incomplete
    /\ event.type = "change"

(* C9: whenever loading is true, error and mealPlan are null.              *)
C9_ClearedWhileLoading == loading => (error = null /\ mealPlan = null)

\* a submission has just started
C9_Witness ==
    /\ loading
    /\ event.type = "submit"

(* C10, as stated: error and mealPlan are never both non-null, a submit    *)
(* that fails validation after a successful one included: the rendered     *)
(* page never shows a meal list and an error message together.             *)
C10_NeverBoth == mounted => ~(NonNull(error) /\ NonNull(mealPlan))

(* C10, amended: as long as every submit came through the enabled submit   *)
(* button, error and mealPlan are never both non-null.                     *)
C10_NeverBothThroughButton ==
    (mounted /\ ~bypassed) => ~(NonNull(error) /\ NonNull(mealPlan))

\* a meal list is shown, without an error, after submits through the button
C10_Witness ==
    /\ ~bypassed
    /\ event.type = "generateResolve"
    /\ NonNull(mealPlan)
    /\ error = null

====
